---- MODULE Spec2Model ----
(***************************************************************************)
(* State-machine model of litestar's AsyncPgChannelsBackend                *)
(* (src/litestar/channels/backends/asyncpg.py).                            *)
(*                                                                         *)
(* Every coroutine of the backend is split at its await expressions: one   *)
(* action runs the code from one suspension point to the next.  The        *)
(* database driver (connections, LISTEN/NOTIFY) is the environment: a      *)
(* connection is a record holding what the backend asked of it.            *)
(***************************************************************************)
EXTENDS Integers, Sequences, FiniteSets, TLC

(***************************************************************************)
(* Bounds of the model.                                                    *)
(***************************************************************************)
\* connections the driver is asked for in one run (self._connect() calls)
MaxConns == 2
\* events one queue object receives (the asyncio.Queue itself is unbounded)
MaxEvents == 2
\* length of the channel collections passed to publish/subscribe/unsubscribe
MaxChans == 2
\* tasks that may run API calls concurrently (SpecConc, SpecPublish)
NumTasks == 2

Channels == {"a", "b"}
Tasks == 1 .. NumTasks
\* the sequential specification has a single caller
SeqTasks == {1}

RECURSIVE SeqsUpTo(_, _)
SeqsUpTo(S, n) ==
    IF n = 0 THEN {<<>>}
    ELSE LET shorter == SeqsUpTo(S, n - 1)
         IN  shorter \cup {Append(s, x) : s \in {q \in shorter : Len(q) = n - 1}, x \in S}

\* the channel collections a caller passes (order and repetitions matter)
ChannelLists == SeqsUpTo(Channels, MaxChans)

Range(s) == {s[k] : k \in 1 .. Len(s)}

(***************************************************************************)
(* bytes.decode("utf-8") and str.encode("utf-8").  A bytes object is a     *)
(* sequence of 0..255, a str a sequence of code points.                    *)
(***************************************************************************)
IsCont(b) == b >= 128 /\ b <= 191

\* number of bytes of the UTF-8 form announced by lead byte b (0: no lead byte)
Utf8Width(b) ==
    IF b < 128 THEN 1
    ELSE IF b >= 194 /\ b <= 223 THEN 2
    ELSE IF b >= 224 /\ b <= 239 THEN 3
    ELSE IF b >= 240 /\ b <= 244 THEN 4
    ELSE 0

\* the code point of the well-positioned form bs[1..w]
Utf8Value(bs, w) ==
    IF w = 1 THEN bs[1]
    ELSE IF w = 2 THEN (bs[1] - 192) * 64 + (bs[2] - 128)
    ELSE IF w = 3 THEN (bs[1] - 224) * 4096 + (bs[2] - 128) * 64 + (bs[3] - 128)
    ELSE (bs[1] - 240) * 262144 + (bs[2] - 128) * 4096 + (bs[3] - 128) * 64 + (bs[4] - 128)

\* shortest-form and range rules of UTF-8 (no overlong forms, no surrogates)
Utf8Scalar(cp, w) ==
    IF w = 1 THEN cp < 128
    ELSE IF w = 2 THEN cp >= 128 /\ cp < 2048
    ELSE IF w = 3 THEN cp >= 2048 /\ cp < 65536 /\ ~(cp >= 55296 /\ cp <= 57343)
    ELSE cp >= 65536 /\ cp <= 1114111

RECURSIVE Utf8Decode(_)
\* data.decode("utf-8"): [ok |-> TRUE, text |-> str] or [ok |-> FALSE] (UnicodeDecodeError)
Utf8Decode(bs) ==
    IF bs = <<>> THEN [ok |-> TRUE, text |-> <<>>]
    ELSE LET w == Utf8Width(bs[1])
         IN  IF w = 0 \/ Len(bs) < w \/ \E k \in 2 .. w : ~IsCont(bs[k])
             THEN [ok |-> FALSE, text |-> <<>>]
             ELSE LET cp == Utf8Value(bs, w)
                      rest == Utf8Decode(SubSeq(bs, w + 1, Len(bs)))
                  IN  IF ~Utf8Scalar(cp, w) \/ ~rest.ok
                      THEN [ok |-> FALSE, text |-> <<>>]
                      ELSE [ok |-> TRUE, text |-> <<cp>> \o rest.text]

\* the UTF-8 form of one code point
Utf8EncodeOne(cp) ==
    IF cp < 128 THEN <<cp>>
    ELSE IF cp < 2048 THEN <<192 + (cp \div 64), 128 + (cp % 64)>>
    ELSE IF cp < 65536
         THEN <<224 + (cp \div 4096), 128 + ((cp \div 64) % 64), 128 + (cp % 64)>>
    ELSE <<240 + (cp \div 262144), 128 + ((cp \div 4096) % 64),
           128 + ((cp \div 64) % 64), 128 + (cp % 64)>>

RECURSIVE Utf8Encode(_)
\* payload.encode("utf-8") of a str without lone surrogates
Utf8Encode(text) ==
    IF text = <<>> THEN <<>>
    ELSE Utf8EncodeOne(text[1]) \o Utf8Encode(Tail(text))

\* payloads handed to publish: "A", "é", "€", a truncated two-byte form, an
\* overlong form
PublishPayloads ==
    { <<65>>, <<195, 169>>, <<226, 130, 172>>, <<195>>, <<192, 128>> }

\* payloads the driver hands to the listener callback: str objects as the
\* server's text decodes ("A", "é"), or an object that is no str
NotifyPayloads ==
    { [type |-> "str", text |-> <<65>>],
      [type |-> "str", text |-> <<233>>],
      [type |-> "bytes", text |-> <<>>] }

(***************************************************************************)
(* State.                                                                  *)
(***************************************************************************)
VARIABLES
    ctor,                 \* the arguments __init__ was given: dsn, make_connection
    subscribed_channels,  \* self._subscribed_channels
    has_queue,            \* whether the attribute self._queue exists
    queue,                \* the items of self._queue, oldest first
    unfinished,           \* self._queue._unfinished_tasks (put minus task_done)
    listener_conn,        \* self._listener_conn: a connection id, 0 while unset
    conns,                \* the driver's connections, by id, in order of opening
    nConnects,            \* self._connect() calls made so far
    phase,                \* the lifecycle as the application drives it
    call,                 \* per task: the API call it is running, and where it is
    cons,                 \* per consumer: where its stream_events generator is
    got,                  \* per consumer: what its current generator has yielded
    epoch,                \* identity of the current queue object (allocations so far)
    enq,                  \* every event put into the current queue object
    nDeq,                 \* number of events taken out of the current queue object
    cb,                   \* how the last call of the listener callback since the
                          \* queue object was allocated ended
    raced,                \* whether some call has started while another was running
    \* the controller layer and the typing utilities
    routes,               \* per HTTP method: the handler registered for it
    request,              \* the request being handled
    last,                 \* the last response sent, with the request it answers
    answered,             \* responses sent so far
    serving,              \* whether the application accepts requests
    probe                 \* a call of annotation_is_iterable_of_type

\* the channels backend
backendVars == <<ctor, subscribed_channels, has_queue, queue, unfinished, listener_conn,
                 conns, nConnects, phase, call, cons, got, epoch, enq, nDeq, cb, raced>>

\* the controller layer and the typing utilities
webVars == <<routes, request, last, answered, serving, probe>>

vars == <<backendVars, webVars>>

queueVars == <<has_queue, queue, unfinished, epoch, enq, nDeq>>
consVars == <<cons, got>>

NumConsumers == 2
Consumers == 1 .. NumConsumers
\* the sequential specification has a single consumer
SeqConsumers == {1}

\* limit: int | None = None
NoLimit == [given |-> FALSE, n |-> 0]

\* the limits a caller passes to get_history
HistoryLimits == {NoLimit} \cup {[given |-> TRUE, n |-> n] : n \in 0 .. MaxEvents}

IdleCall ==
    [op |-> "none", pc |-> "idle", data |-> <<>>, text |-> <<>>, chans |-> <<>>,
     oneshot |-> FALSE, todo |-> {}, cur |-> "", i |-> 0, conn |-> 0,
     exc |-> "none", log |-> <<>>, sub0 |-> {}, limit |-> NoLimit]

\* q: the queue object a get waits on or took from; born, base: the queue object
\* the generator found when it started, and how many events had left it by then
IdleCons == [pc |-> "idle", q |-> 0, born |-> 0, base |-> 0]

NoCallback == "none"

\* the values of the parameters of __init__: None (the default of both), a
\* str for dsn (the empty one as well), a callable for make_connection
None == [given |-> FALSE, value |-> ""]
DsnValues == {None, [given |-> TRUE, value |-> ""], [given |-> TRUE, value |-> "postgresql://db"]}
FactoryValues == {None, [given |-> TRUE, value |-> "factory"]}

\* the truth value of a parameter, as `or` and `not` take it: None and the
\* empty str are false
Truthy(x) == x.given /\ x.value # ""

\* a call of __init__ with its outcome
CtorCall(dsn, make_connection) ==
    [dsn |-> dsn, make_connection |-> make_connection, exc |-> "none"]

\* no call of __init__ yet
NoCtor == CtorCall(None, None)

\* the arguments of the two overloads of __init__
CtorArgs ==
    { CtorCall(dsn, None) : dsn \in {d \in DsnValues : Truthy(d)} }
        \cup { CtorCall(None, f) : f \in {g \in FactoryValues : Truthy(g)} }

\* self._connect = make_connection or partial(asyncpg.connect, dsn=dsn)
ConnectVia(args) == IF Truthy(args.make_connection) THEN "make_connection" ELSE "dsn"

\* a connection as self._connect() returns it
NewConn(opener) ==
    [open |-> TRUE, by |-> opener, via |-> ConnectVia(ctor), cmds |-> <<>>,
     listeners |-> {}, adds |-> [c \in Channels |-> 0]]

(***************************************************************************)
(* The controller layer as the tests of src/tests/test_controller.py use   *)
(* it: handlers registered for HTTP methods on one controller path, a      *)
(* client sending requests, the application answering them.                *)
(***************************************************************************)
\* handlers one application registers, requests one client sends
MaxHandlers == 2
MaxRequests == 2

HttpMethods == {"GET", "POST", "PUT", "PATCH", "DELETE"}

HTTP_200_OK == 200
HTTP_201_CREATED == 201
HTTP_204_NO_CONTENT == 204
HTTP_500_INTERNAL_SERVER_ERROR == 500

\* class Person(BaseModel): id: int; first_name: str; last_name: str
PersonFields ==
    << [name |-> "id", type |-> "int"],
       [name |-> "first_name", type |-> "str"],
       [name |-> "last_name", type |-> "str"] >>

\* person_instance = PersonFactory.build()
person_instance == [id |-> 120, first_name |-> "Ann", last_name |-> "Lee"]

\* the two providers of test_dependency_injection: first_dependency is a plain
\* function of the headers, second_dependency a coroutine of the request that
\* awaits sleep(0.1); each returns object()
Providers ==
    [first |-> [async |-> FALSE, needs |-> "headers"],
     second |-> [async |-> TRUE, needs |-> "request"]]

DependencyNames == {"first", "second"}

\* the parametrization of test_controller_http_method: the decorator of each
\* method and the status the client is to see
expected_status_code ==
    [GET |-> HTTP_200_OK, POST |-> HTTP_201_CREATED, PUT |-> HTTP_200_OK,
     PATCH |-> HTTP_200_OK, DELETE |-> HTTP_204_NO_CONTENT]

\* no handler registered for a method
NoHandler == [method |-> "", data |-> FALSE, deps |-> {}, returns |-> "nothing"]

\* test_controller_http_method: def test_method(self): return person_instance
PlainHandler(method) == [NoHandler EXCEPT !.method = method, !.returns = "person"]

\* test_dependency_injection: def test_method(self, first: object, second: object)
InjectedHandler(method) == [NoHandler EXCEPT !.method = method, !.deps = DependencyNames]

\* test_defining_data_for_get_handler_raises_exception and test_data_using_model:
\* def test_method(self, data: Person)
DataHandler(method) == [NoHandler EXCEPT !.method = method, !.data = TRUE]

\* the handlers of the tests
Handlers ==
    UNION {{PlainHandler(m), InjectedHandler(m), DataHandler(m)} : m \in HttpMethods}

\* no request is being handled.  pending: dependencies not yet resolved; cur:
\* the provider awaited; values, calls: per dependency its value (an object
\* identity, 0 for none) and the calls of its provider; made: objects created;
\* runs: executions of the handler body; status, body: the response to send
NoRequest ==
    [method |-> "", body |-> FALSE, pc |-> "none", pending |-> {}, cur |-> "",
     values |-> [d \in DependencyNames |-> 0], calls |-> [d \in DependencyNames |-> 0],
     made |-> 0, runs |-> 0, status |-> 0, json |-> <<>>]

NoResponse == [status |-> 0, json |-> <<>>, request |-> NoRequest]

\* the classes the annotations of the tests are made of
ElementTypes == {"DataclassPerson", "DataclassPet"}

ScalarTypes == {"int", "str", "bool"}

\* an annotation: the name it is written with, whether that name is an alias of
\* the typing module (List, Tuple, ...) and its parameters, "..." for Ellipsis
Annotation(name, alias, args) == [name |-> name, alias |-> alias, args |-> args]

\* a class used as an annotation
Plain(name) == Annotation(name, FALSE, <<>>)

\* the rows of test_annotation_is_iterable_of_type, those of Python 3.10 included
test_annotation_rows ==
    {[annotation |-> Annotation("List", TRUE, <<"DataclassPerson">>), expected |-> TRUE],
     [annotation |-> Annotation("Sequence", TRUE, <<"DataclassPerson">>), expected |-> TRUE],
     [annotation |-> Annotation("Iterable", TRUE, <<"DataclassPerson">>), expected |-> TRUE],
     [annotation |-> Annotation("Tuple", TRUE, <<"DataclassPerson", "...">>), expected |-> TRUE],
     [annotation |-> Annotation("Deque", TRUE, <<"DataclassPerson">>), expected |-> TRUE],
     [annotation |-> Annotation("List", TRUE, <<"DataclassPet">>), expected |-> FALSE],
     [annotation |-> Annotation("Sequence", TRUE, <<"DataclassPet">>), expected |-> FALSE],
     [annotation |-> Annotation("Iterable", TRUE, <<"DataclassPet">>), expected |-> FALSE],
     [annotation |-> Annotation("Tuple", TRUE, <<"DataclassPet", "...">>), expected |-> FALSE],
     [annotation |-> Annotation("Deque", TRUE, <<"DataclassPet">>), expected |-> FALSE],
     [annotation |-> Annotation("tuple", FALSE, <<"DataclassPerson", "...">>), expected |-> TRUE],
     [annotation |-> Annotation("list", FALSE, <<"DataclassPerson">>), expected |-> TRUE],
     [annotation |-> Annotation("deque", FALSE, <<"DataclassPerson">>), expected |-> TRUE],
     [annotation |-> Annotation("tuple", FALSE, <<"DataclassPet", "...">>), expected |-> FALSE],
     [annotation |-> Annotation("list", FALSE, <<"DataclassPet">>), expected |-> FALSE],
     [annotation |-> Annotation("deque", FALSE, <<"DataclassPet">>), expected |-> FALSE],
     [annotation |-> Plain("int"), expected |-> FALSE],
     [annotation |-> Plain("str"), expected |-> FALSE],
     [annotation |-> Plain("bool"), expected |-> FALSE]}

\* the annotations a caller may pass: the shapes of the tests over every class,
\* tuples of fixed length, mappings, and the classes themselves
Annotations ==
    LET types == ElementTypes \cup ScalarTypes
    IN  {Annotation(n, TRUE, <<t>>) : n \in {"List", "Sequence", "Iterable", "Deque"},
                                       t \in ElementTypes \cup {"int"}}
        \cup {Annotation(n, FALSE, <<t>>) : n \in {"list", "deque"}, t \in ElementTypes \cup {"int"}}
        \cup {Annotation("Tuple", TRUE, <<t, u>>) : t \in ElementTypes, u \in ElementTypes \cup {"..."}}
        \cup {Annotation("tuple", FALSE, <<t, u>>) : t \in ElementTypes, u \in ElementTypes \cup {"..."}}
        \cup {Annotation("Dict", TRUE, <<t, u>>) : t \in ElementTypes, u \in ElementTypes}
        \cup {Plain(t) : t \in types}

\* no call of annotation_is_iterable_of_type has been made
NoProbe == [pc |-> "none", annotation |-> Plain(""), type_value |-> "", result |-> FALSE]

\* no application has been made and no utility called
WebIdle ==
    /\ routes = [m \in HttpMethods |-> NoHandler]
    /\ request = NoRequest
    /\ last = NoResponse
    /\ answered = 0
    /\ serving = FALSE
    /\ probe = NoProbe

Init ==
    /\ WebIdle
    /\ ctor \in CtorArgs
    /\ subscribed_channels = {}
    /\ has_queue = FALSE
    /\ queue = <<>>
    /\ unfinished = 0
    /\ listener_conn = 0
    /\ conns = <<>>
    /\ nConnects = 0
    /\ phase = "new"
    /\ call = [t \in Tasks |-> IdleCall]
    /\ cons = [k \in Consumers |-> IdleCons]
    /\ got = [k \in Consumers |-> <<>>]
    /\ epoch = 0
    /\ enq = <<>>
    /\ nDeq = 0
    /\ cb = NoCallback
    /\ raced = FALSE

\* the backend constructed from a DSN
InitDsn == Init /\ Truthy(ctor.dsn)

\* the attribute self._subscribed_channels of an object __init__ has not run on
NoAttribute == {"<no attribute>"}

\* before the backend is constructed
InitCtor ==
    /\ WebIdle
    /\ ctor = NoCtor
    /\ subscribed_channels = NoAttribute
    /\ has_queue = FALSE
    /\ queue = <<>>
    /\ unfinished = 0
    /\ listener_conn = 0
    /\ conns = <<>>
    /\ nConnects = 0
    /\ phase = "none"
    /\ call = [t \in Tasks |-> IdleCall]
    /\ cons = [k \in Consumers |-> IdleCons]
    /\ got = [k \in Consumers |-> <<>>]
    /\ epoch = 0
    /\ enq = <<>>
    /\ nDeq = 0
    /\ cb = NoCallback
    /\ raced = FALSE

\* (mutation) __init__ without the check of its arguments
ConstructUnchecked(dsn, make_connection) ==
    /\ phase = "none"
    /\ ctor' = CtorCall(dsn, make_connection)
    /\ subscribed_channels' = {}
    /\ phase' = "new"
    /\ UNCHANGED <<webVars, raced, queueVars, listener_conn, conns, nConnects, call, consVars, cb>>

\* __init__: raises ImproperlyConfiguredException when neither argument is
\* true, and there is no instance; else the subscribed set is created empty and
\* self._connect is bound, with no call of it
Construct(dsn, make_connection) ==
    /\ phase = "none"
    /\ IF ~(Truthy(dsn) \/ Truthy(make_connection))
       THEN /\ ctor' = [CtorCall(dsn, make_connection) EXCEPT
                           !.exc = "ImproperlyConfiguredException"]
            /\ UNCHANGED <<subscribed_channels, phase>>
       ELSE /\ ctor' = CtorCall(dsn, make_connection)
            /\ subscribed_channels' = {}
            /\ phase' = "new"
    /\ UNCHANGED <<webVars, raced, queueVars, listener_conn, conns, nConnects, call, consVars, cb>>

Idle(t) == call[t].pc = "idle"

\* some other task is inside a call: the two calls overlap in time
Overlaps(t) == \E u \in Tasks \ {t} : call[u].pc \notin {"idle", "returned"}

\* the record of a call as it starts
Started(t, name) == [IdleCall EXCEPT !.op = name, !.sub0 = subscribed_channels]

\* task t starts the call recorded in c
Starts(t, c) ==
    /\ call' = [call EXCEPT ![t] = c]
    /\ raced' = (raced \/ Overlaps(t))

(***************************************************************************)
(* on_startup / on_shutdown                                                *)
(***************************************************************************)
\* the consumers once the backend lets go of its queue object: a get that
\* waits on it is never woken, a generator that has yielded goes on with the
\* attribute as it finds it, and what either had been yielded from the old
\* queue is looked at no longer
Orphaned(cs) == [k \in Consumers |-> [IdleCons EXCEPT !.pc = cs[k].pc]]

\* on_startup up to its await: self._queue = asyncio.Queue(); self._connect()
BeginStartup(t) ==
    /\ Idle(t)
    /\ phase \in {"new", "stopped"}
    /\ \A u \in Tasks : call[u].op # "on_startup"
    /\ nConnects < MaxConns
    /\ has_queue' = TRUE
    /\ queue' = <<>>
    /\ unfinished' = 0
    /\ epoch' = epoch + 1
    /\ enq' = <<>>
    /\ nDeq' = 0
    /\ cb' = NoCallback
    /\ nConnects' = nConnects + 1
    /\ cons' = Orphaned(cons)
    /\ got' = [k \in Consumers |-> <<>>]
    /\ Starts(t, [Started(t, "on_startup") EXCEPT !.pc = "await_connect"])
    /\ UNCHANGED <<webVars, ctor, subscribed_channels, listener_conn, conns, phase>>

\* the connection arrives: self._listener_conn = <it>
StartupConnected(t) ==
    /\ call[t].op = "on_startup"
    /\ call[t].pc = "await_connect"
    /\ conns' = Append(conns, NewConn("on_startup"))
    /\ listener_conn' = Len(conns) + 1
    /\ phase' = "running"
    /\ call' = [call EXCEPT ![t].pc = "returned", ![t].conn = Len(conns) + 1]
    /\ UNCHANGED <<webVars, ctor, raced, subscribed_channels, queueVars, nConnects, consVars, cb>>

\* self._connect() raises: on_startup raises with the queue already allocated
StartupConnectFails(t) ==
    /\ call[t].op = "on_startup"
    /\ call[t].pc = "await_connect"
    /\ call' = [call EXCEPT ![t].pc = "returned", ![t].exc = "ConnectError"]
    /\ UNCHANGED <<webVars, ctor, raced, subscribed_channels, queueVars, listener_conn, conns,
                   nConnects, phase, consVars, cb>>

\* on_shutdown up to its await: self._listener_conn.close() is called
BeginShutdown(t) ==
    /\ Idle(t)
    /\ phase = "running"
    /\ \A u \in Tasks : Idle(u)
    /\ Starts(t, [Started(t, "on_shutdown") EXCEPT !.pc = "await_close", !.conn = listener_conn])
    /\ UNCHANGED <<webVars, ctor, subscribed_channels, queueVars, listener_conn, conns,
                   nConnects, phase, consVars, cb>>

\* what close() does to a connection: closed, its listeners dropped
Closed(conn) ==
    [conn EXCEPT !.open = FALSE, !.listeners = {}, !.adds = [c \in Channels |-> 0]]

\* (mutation) on_shutdown discards the queue and leaves the connection open
ShutdownKeepsConnection(t) ==
    /\ call[t].op = "on_shutdown"
    /\ call[t].pc = "await_close"
    /\ has_queue' = FALSE
    /\ queue' = <<>>
    /\ unfinished' = 0
    /\ enq' = <<>>
    /\ nDeq' = 0
    /\ phase' = "stopped"
    /\ call' = [call EXCEPT ![t].pc = "returned"]
    /\ cb' = NoCallback
    /\ cons' = Orphaned(cons)
    /\ got' = [k \in Consumers |-> <<>>]
    /\ UNCHANGED <<webVars, ctor, raced, subscribed_channels, epoch, listener_conn, conns, nConnects>>

\* the close completes; del self._queue
ShutdownClosed(t) ==
    /\ call[t].op = "on_shutdown"
    /\ call[t].pc = "await_close"
    /\ conns' = [conns EXCEPT ![call[t].conn] = Closed(@)]
    /\ has_queue' = FALSE
    /\ queue' = <<>>
    /\ unfinished' = 0
    /\ enq' = <<>>
    /\ nDeq' = 0
    /\ phase' = "stopped"
    /\ call' = [call EXCEPT ![t].pc = "returned"]
    /\ cb' = NoCallback
    /\ cons' = Orphaned(cons)
    /\ got' = [k \in Consumers |-> <<>>]
    /\ UNCHANGED <<webVars, ctor, raced, subscribed_channels, epoch, listener_conn, nConnects>>

\* the connections once the caller is done with call c: what a closed publish
\* connection had executed is looked at no longer
Released(cs, c) ==
    IF c.op = "publish" /\ c.conn # 0 /\ ~cs[c.conn].open
    THEN [cs EXCEPT ![c.conn].cmds = <<>>]
    ELSE cs

\* the caller takes the result (or the exception) of a finished call
Return(t) ==
    /\ call[t].pc = "returned"
    /\ call' = [call EXCEPT ![t] = IdleCall]
    /\ conns' = Released(conns, call[t])
    /\ UNCHANGED <<webVars, ctor, raced, subscribed_channels, queueVars, listener_conn,
                   nConnects, phase, consVars, cb>>

(***************************************************************************)
(* publish                                                                 *)
(***************************************************************************)
DriverCall(f, ch, arg) == [f |-> f, ch |-> ch, arg |-> arg]

\* conn.execute("SELECT pg_notify($1, $2);", channel, dec_data)
NotifyCall(channel, dec_data) == DriverCall("pg_notify", channel, dec_data)

\* (mutation) publish keeps one connection for all its calls
PublishConnShared ==
    IF \E id \in 1 .. Len(conns) : conns[id].by = "publish" /\ conns[id].open
    THEN CHOOSE id \in 1 .. Len(conns) : conns[id].by = "publish" /\ conns[id].open
    ELSE Len(conns) + 1

\* (mutation) publish notifies on the listener connection when there is one
PublishConnListener ==
    IF listener_conn # 0 /\ conns[listener_conn].open THEN listener_conn ELSE Len(conns) + 1

\* the connection publish works on: the one self._connect() has just returned
PublishConn == Len(conns) + 1

\* the connections once publish has its own
PublishConns == Append(conns, NewConn("publish"))

\* the for loop of publish at its k-th channel: the next execute is issued on
\* connection id, or, the channels exhausted, the finally clause calls close
PublishLoop(c, cs, id, k) ==
    IF k <= Len(c.chans)
    THEN [call |-> [c EXCEPT !.pc = "await_execute", !.i = k, !.conn = id,
                             !.log = Append(@, NotifyCall(c.chans[k], c.text))],
          conns |-> [cs EXCEPT ![id].cmds = Append(@, NotifyCall(c.chans[k], c.text))]]
    ELSE [call |-> [c EXCEPT !.pc = "await_close", !.conn = id], conns |-> cs]

\* (mutation) the connection is asked for before the payload is decoded, outside
\* the try block
BeginPublishConnectFirst(t, data, channels) ==
    /\ Idle(t)
    /\ nConnects < MaxConns
    /\ LET dec == Utf8Decode(data)
           c == [Started(t, "publish") EXCEPT !.data = data, !.chans = channels]
       IN  IF dec.ok
           THEN /\ Starts(t, [c EXCEPT !.pc = "await_connect", !.text = dec.text])
                /\ UNCHANGED conns
           ELSE /\ Starts(t, [c EXCEPT !.pc = "returned", !.exc = "UnicodeDecodeError",
                                       !.conn = Len(conns) + 1])
                /\ conns' = Append(conns, NewConn("publish"))
    /\ nConnects' = nConnects + 1
    /\ UNCHANGED <<webVars, ctor, subscribed_channels, queueVars, listener_conn, phase, consVars, cb>>

\* publish up to its first await: the payload is decoded, self._connect() called
BeginPublish(t, data, channels) ==
    /\ Idle(t)
    /\ nConnects < MaxConns
    /\ LET dec == Utf8Decode(data)
           c == [Started(t, "publish") EXCEPT !.data = data, !.chans = channels]
       IN  IF dec.ok
           THEN /\ Starts(t, [c EXCEPT !.pc = "await_connect", !.text = dec.text])
                /\ nConnects' = nConnects + 1
           ELSE /\ Starts(t, [c EXCEPT !.pc = "returned", !.exc = "UnicodeDecodeError"])
                /\ UNCHANGED nConnects
    /\ UNCHANGED <<webVars, ctor, subscribed_channels, queueVars, listener_conn, conns, phase,
                   consVars, cb>>

\* the connection arrives and the loop starts
PublishConnected(t) ==
    /\ call[t].op = "publish"
    /\ call[t].pc = "await_connect"
    /\ LET r == PublishLoop(call[t], PublishConns, PublishConn, 1)
       IN  /\ call' = [call EXCEPT ![t] = r.call]
           /\ conns' = r.conns
    /\ UNCHANGED <<webVars, ctor, raced, subscribed_channels, queueVars, listener_conn, nConnects, phase,
                   consVars, cb>>

\* self._connect() raises before the try block: nothing to close
PublishConnectFails(t) ==
    /\ call[t].op = "publish"
    /\ call[t].pc = "await_connect"
    /\ call' = [call EXCEPT ![t].pc = "returned", ![t].exc = "ConnectError"]
    /\ UNCHANGED <<webVars, ctor, raced, subscribed_channels, queueVars, listener_conn, conns, nConnects,
                   phase, consVars, cb>>

\* one execute returns: on to the next channel
PublishExecuted(t) ==
    /\ call[t].op = "publish"
    /\ call[t].pc = "await_execute"
    /\ LET r == PublishLoop(call[t], conns, call[t].conn, call[t].i + 1)
       IN  /\ call' = [call EXCEPT ![t] = r.call]
           /\ conns' = r.conns
    /\ UNCHANGED <<webVars, ctor, raced, subscribed_channels, queueVars, listener_conn, nConnects, phase,
                   consVars, cb>>

\* (mutation) no finally clause: the error leaves publish at once
PublishExecuteFailsNoFinally(t) ==
    /\ call[t].op = "publish"
    /\ call[t].pc = "await_execute"
    /\ call' = [call EXCEPT ![t].pc = "returned", ![t].exc = "ExecuteError"]
    /\ UNCHANGED <<webVars, ctor, raced, subscribed_channels, queueVars, listener_conn, conns, nConnects,
                   phase, consVars, cb>>

\* one execute raises: the finally clause calls close with the error pending
PublishExecuteFails(t) ==
    /\ call[t].op = "publish"
    /\ call[t].pc = "await_execute"
    /\ call' = [call EXCEPT ![t].pc = "await_close", ![t].exc = "ExecuteError"]
    /\ UNCHANGED <<webVars, ctor, raced, subscribed_channels, queueVars, listener_conn, conns, nConnects,
                   phase, consVars, cb>>

\* the connections after conn.close() of the finally clause
PublishClose(cs, id) == [cs EXCEPT ![id] = Closed(@)]

\* the close completes: publish returns, or re-raises the pending error
PublishClosed(t) ==
    /\ call[t].op = "publish"
    /\ call[t].pc = "await_close"
    /\ conns' = PublishClose(conns, call[t].conn)
    /\ call' = [call EXCEPT ![t].pc = "returned"]
    /\ UNCHANGED <<webVars, ctor, raced, subscribed_channels, queueVars, listener_conn, nConnects, phase,
                   consVars, cb>>

(***************************************************************************)
(* subscribe / unsubscribe                                                 *)
(***************************************************************************)
\* (mutation) every requested channel is registered, subscribed or not
SubscribeTodoAll(channels, subscribed) == Range(channels)

\* set(channels) - self._subscribed_channels
SubscribeTodo(channels, subscribed) == Range(channels) \ subscribed

\* the for loop of subscribe over what is left of the set difference: one
\* channel (a set iterates in no particular order) has add_listener called
SubscribeLoop(c, ch) ==
    [c EXCEPT !.pc = "await_add", !.cur = ch, !.todo = @ \ {ch}, !.conn = listener_conn,
              !.log = Append(@, DriverCall("add_listener", ch, <<>>))]

\* subscribe up to its first await
BeginSubscribe(t, channels) ==
    /\ Idle(t)
    /\ phase = "running"
    /\ LET c == [Started(t, "subscribe") EXCEPT
                    !.chans = channels,
                    !.todo = SubscribeTodo(channels, subscribed_channels)]
       IN  IF c.todo = {}
           THEN Starts(t, [c EXCEPT !.pc = "returned"])
           ELSE \E ch \in c.todo : Starts(t, SubscribeLoop(c, ch))
    /\ UNCHANGED <<webVars, ctor, subscribed_channels, queueVars, listener_conn, conns, nConnects,
                   phase, consVars, cb>>

\* what add_listener does to the connection: the callback is registered
AddListener(conn, ch) ==
    [conn EXCEPT !.listeners = @ \cup {ch}, !.adds[ch] = @ + 1]

\* (mutation) the channel is registered and not added to the set
SubscribeAddNothing(subscribed, ch) == subscribed

\* self._subscribed_channels.add(channel)
SubscribeAdd(subscribed, ch) == subscribed \cup {ch}

\* add_listener returns: the channel joins the set, the loop goes on
SubscribeAdded(t) ==
    /\ call[t].op = "subscribe"
    /\ call[t].pc = "await_add"
    /\ conns' = [conns EXCEPT ![call[t].conn] = AddListener(@, call[t].cur)]
    /\ subscribed_channels' = SubscribeAdd(subscribed_channels, call[t].cur)
    /\ IF call[t].todo = {}
       THEN call' = [call EXCEPT ![t].pc = "returned"]
       ELSE \E ch \in call[t].todo : call' = [call EXCEPT ![t] = SubscribeLoop(@, ch)]
    /\ UNCHANGED <<webVars, ctor, raced, queueVars, listener_conn, nConnects, phase, consVars, cb>>

\* add_listener raises: subscribe raises, the channel is neither registered nor added
SubscribeAddFails(t) ==
    /\ call[t].op = "subscribe"
    /\ call[t].pc = "await_add"
    /\ call' = [call EXCEPT ![t].pc = "returned", ![t].exc = "ListenError"]
    /\ UNCHANGED <<webVars, ctor, raced, subscribed_channels, queueVars, listener_conn, conns, nConnects,
                   phase, consVars, cb>>

\* set(channels) on the last line of unsubscribe: the for loop has already
\* run over channels, and an iterator is exhausted by then
UnsubscribeSet(channels, oneshot) == IF oneshot THEN {} ELSE Range(channels)

\* self._subscribed_channels - set(channels)
UnsubscribeResult(subscribed, channels, oneshot) ==
    subscribed \ UnsubscribeSet(channels, oneshot)

\* the for loop of unsubscribe at its k-th channel: remove_listener is called
UnsubscribeLoop(c, k) ==
    [c EXCEPT !.pc = "await_remove", !.i = k, !.cur = c.chans[k], !.conn = listener_conn,
              !.log = Append(@, DriverCall("remove_listener", c.chans[k], <<>>))]

\* unsubscribe up to its first await (channels: a list, or an iterator over one)
BeginUnsubscribe(t, channels, oneshot) ==
    /\ Idle(t)
    /\ phase = "running"
    /\ LET c == [Started(t, "unsubscribe") EXCEPT !.chans = channels, !.oneshot = oneshot]
       IN  IF channels = <<>>
           THEN /\ Starts(t, [c EXCEPT !.pc = "returned"])
                /\ subscribed_channels' =
                       UnsubscribeResult(subscribed_channels, channels, oneshot)
           ELSE /\ Starts(t, UnsubscribeLoop(c, 1))
                /\ UNCHANGED subscribed_channels
    /\ UNCHANGED <<webVars, ctor, queueVars, listener_conn, conns, nConnects, phase, consVars, cb>>

\* what remove_listener does to the connection: the callback is unregistered
RemoveListener(conn, ch) ==
    [conn EXCEPT !.listeners = @ \ {ch}, !.adds[ch] = 0]

\* remove_listener returns: on to the next channel, or to the last line
UnsubscribeRemoved(t) ==
    /\ call[t].op = "unsubscribe"
    /\ call[t].pc = "await_remove"
    /\ conns' = [conns EXCEPT ![call[t].conn] = RemoveListener(@, call[t].cur)]
    /\ IF call[t].i < Len(call[t].chans)
       THEN /\ call' = [call EXCEPT ![t] = UnsubscribeLoop(@, call[t].i + 1)]
            /\ UNCHANGED subscribed_channels
       ELSE /\ call' = [call EXCEPT ![t].pc = "returned"]
            /\ subscribed_channels' =
                   UnsubscribeResult(subscribed_channels, call[t].chans, call[t].oneshot)
    /\ UNCHANGED <<webVars, ctor, raced, queueVars, listener_conn, nConnects, phase, consVars, cb>>

\* remove_listener raises: unsubscribe raises before its last line
UnsubscribeRemoveFails(t) ==
    /\ call[t].op = "unsubscribe"
    /\ call[t].pc = "await_remove"
    /\ call' = [call EXCEPT ![t].pc = "returned", ![t].exc = "UnlistenError"]
    /\ UNCHANGED <<webVars, ctor, raced, subscribed_channels, queueVars, listener_conn, conns, nConnects,
                   phase, consVars, cb>>


(***************************************************************************)
(* _listener: the callback the driver calls for a notification             *)
(***************************************************************************)
\* isinstance(payload, str)
IsStr(payload) == payload.type = "str"

\* (channel, payload.encode("utf-8"))
ListenerEvent(channel, payload) == <<channel, Utf8Encode(payload.text)>>

\* (mutation) the queue is given a capacity of one and a put on a full queue
\* is dropped
PutNowaitBounded(q, item) == IF Len(q) >= 1 THEN q ELSE Append(q, item)

\* asyncio.Queue.put_nowait on a queue without maxsize: appended at the tail
PutNowait(q, item) == Append(q, item)

\* the driver calls the callback only for a channel that has it registered on
\* an open connection; the callback runs to its end without suspending
Listener(channel, payload) ==
    /\ listener_conn # 0
    /\ conns[listener_conn].open
    /\ channel \in conns[listener_conn].listeners
    /\ IF ~IsStr(payload)
       THEN /\ cb' = "RuntimeError"
            /\ UNCHANGED queueVars
       ELSE IF ~has_queue
       THEN /\ cb' = "AttributeError"
            /\ UNCHANGED queueVars
       ELSE /\ Len(enq) < MaxEvents
            /\ queue' = PutNowait(queue, ListenerEvent(channel, payload))
            /\ unfinished' = unfinished + 1
            /\ enq' = Append(enq, ListenerEvent(channel, payload))
            /\ cb' = "ok"
            /\ UNCHANGED <<has_queue, epoch, nDeq>>
    /\ UNCHANGED <<webVars, ctor, raced, subscribed_channels, listener_conn, conns, nConnects, phase, call,
                   consVars>>

(***************************************************************************)
(* stream_events: an async generator, one per consumer                     *)
(***************************************************************************)
\* (mutation) get hands out the oldest item and leaves it in the queue
GetRestPeek(q) == q

\* (mutation) get takes the newest item
GetItemNewest(q) == q[Len(q)]

\* asyncio.Queue.get takes the oldest item
GetItem(q) == Head(q)

\* the queue after get has taken its item
GetRest(q) == Tail(q)

\* `while self._queue: yield await self._queue.get()` from the loop test on,
\* for a generator whose record is c: the attribute is read, then get either
\* takes an item at once and the generator yields it, or waits on that queue;
\* with the attribute gone the read raises AttributeError, the generator is
\* over and the consumer is left without one
StreamLoop(k, c) ==
    IF ~has_queue
    THEN /\ cons' = [cons EXCEPT ![k] = IdleCons]
         /\ got' = [got EXCEPT ![k] = <<>>]
         /\ UNCHANGED <<queue, nDeq>>
    ELSE IF queue # <<>>
    THEN /\ cons' = [cons EXCEPT ![k] = [c EXCEPT !.pc = "yielded", !.q = epoch]]
         /\ got' = [got EXCEPT ![k] = Append(@, [idx |-> nDeq + 1, ev |-> GetItem(queue)])]
         /\ queue' = GetRest(queue)
         /\ nDeq' = nDeq + 1
    ELSE /\ cons' = [cons EXCEPT ![k] = [c EXCEPT !.pc = "waiting", !.q = epoch]]
         /\ UNCHANGED <<queue, nDeq, got>>

\* a consumer starts iterating a new generator
StreamStart(k) ==
    /\ cons[k].pc = "idle"
    /\ got[k] = <<>>
    /\ StreamLoop(k, [IdleCons EXCEPT !.born = epoch, !.base = nDeq])
    /\ UNCHANGED <<webVars, ctor, raced, subscribed_channels, has_queue, unfinished, epoch, enq,
                   listener_conn, conns, nConnects, phase, call, cb>>

\* a put has woken the waiting get: it takes the oldest item of the queue
\* object it waits on, and the generator yields it
StreamWake(k) ==
    /\ cons[k].pc = "waiting"
    /\ has_queue
    /\ cons[k].q = epoch
    /\ queue # <<>>
    /\ StreamLoop(k, cons[k])
    /\ UNCHANGED <<webVars, ctor, raced, subscribed_channels, has_queue, unfinished, epoch, enq,
                   listener_conn, conns, nConnects, phase, call, cb>>

\* the consumer asks for the next event: self._queue.task_done(), then the
\* loop again.  task_done raises when the attribute is gone (AttributeError)
\* or when the queue it finds has no unfinished item (ValueError), and the
\* consumer is left without a generator
StreamResume(k) ==
    /\ cons[k].pc = "yielded"
    /\ IF ~has_queue \/ unfinished = 0
       THEN /\ cons' = [cons EXCEPT ![k] = IdleCons]
            /\ got' = [got EXCEPT ![k] = <<>>]
            /\ UNCHANGED <<queue, nDeq, unfinished>>
       ELSE /\ unfinished' = unfinished - 1
            /\ StreamLoop(k, cons[k])
    /\ UNCHANGED <<webVars, ctor, raced, subscribed_channels, has_queue, epoch, enq,
                   listener_conn, conns, nConnects, phase, call, cb>>

(***************************************************************************)
(* get_history                                                             *)
(***************************************************************************)
\* (mutation) a backend without history answers with the empty list
GetHistoryEmpty(t, channel, limit) ==
    /\ Idle(t)
    /\ Starts(t, [Started(t, "get_history") EXCEPT
                     !.pc = "returned", !.cur = channel, !.limit = limit])
    /\ UNCHANGED <<webVars, ctor, subscribed_channels, queueVars, listener_conn, conns, nConnects,
                   phase, consVars, cb>>

\* get_history: raise NotImplementedError(), whatever the arguments and the
\* state of the backend; the coroutine has no await
GetHistory(t, channel, limit) ==
    /\ Idle(t)
    /\ Starts(t, [Started(t, "get_history") EXCEPT
                     !.pc = "returned", !.exc = "NotImplementedError",
                     !.cur = channel, !.limit = limit])
    /\ UNCHANGED <<webVars, ctor, subscribed_channels, queueVars, listener_conn, conns, nConnects,
                   phase, consVars, cb>>

(***************************************************************************)
(* The controller layer: registration, dispatch, dependency injection.     *)
(***************************************************************************)
RECURSIVE Digits(_)
\* the decimal digits of a natural number, as JSON writes it
Digits(n) == IF n < 10 THEN <<n>> ELSE Append(Digits(n \div 10), n % 10)

RECURSIVE Number(_)
\* the number a sequence of decimal digits denotes
Number(ds) ==
    IF Len(ds) = 1 THEN ds[1]
    ELSE 10 * Number(SubSeq(ds, 1, Len(ds) - 1)) + ds[Len(ds)]

\* the JSON object a record is serialized to: one member per field, in the
\* order of the fields, an int as a number, a str as a string
ToJson(rec, fields) ==
    [k \in 1 .. Len(fields) |->
        IF fields[k].type = "int"
        THEN [key |-> fields[k].name, t |-> "number", digits |-> Digits(rec[fields[k].name]),
              chars |-> ""]
        ELSE [key |-> fields[k].name, t |-> "string", digits |-> <<>>,
              chars |-> rec[fields[k].name]]]

\* the mapping a JSON object denotes (response.json(), and the parsing of a
\* request body)
FromJson(js) ==
    [name \in {js[k].key : k \in 1 .. Len(js)} |->
        LET m == CHOOSE k \in 1 .. Len(js) : js[k].key = name
        IN  IF js[m].t = "number" THEN Number(js[m].digits) ELSE js[m].chars]

\* (mutation) every method answers 200 unless the handler says otherwise
DefaultStatusAlways200(method) == HTTP_200_OK

\* the default success status of the decorator of a method
DefaultStatus(method) ==
    CASE method = "GET" -> HTTP_200_OK
      [] method = "POST" -> HTTP_201_CREATED
      [] method = "PUT" -> HTTP_200_OK
      [] method = "PATCH" -> HTTP_200_OK
      [] method = "DELETE" -> HTTP_204_NO_CONTENT

\* whether requests of a method carry body data
HasBodySemantics(method) == method # "GET"

Registered == {m \in HttpMethods : routes[m] # NoHandler}

\* a controller with handler h is registered; no combination of method and
\* parameters is rejected here
Register(h) ==
    /\ ~serving
    /\ answered = 0
    /\ routes[h.method] = NoHandler
    /\ Cardinality(Registered) < MaxHandlers
    /\ routes' = [routes EXCEPT ![h.method] = h]
    /\ UNCHANGED <<backendVars, request, last, answered, serving, probe>>

\* create_test_client(MyController): the application starts
StartServing ==
    /\ ~serving
    /\ answered = 0
    /\ Registered # {}
    /\ serving' = TRUE
    /\ UNCHANGED <<backendVars, routes, request, last, answered, probe>>

\* the client sends a request of a method to the controller path, with the
\* serialized person_instance as its body or without a body (the handlers that
\* take data from a method with a body are always sent one)
Dispatch(method, body) ==
    /\ serving
    /\ request.pc = "none"
    /\ answered < MaxRequests
    /\ routes[method] # NoHandler
    /\ body => routes[method].data
    /\ routes[method].data /\ HasBodySemantics(method) => body
    /\ request' = [NoRequest EXCEPT !.method = method, !.body = body, !.pc = "routed"]
    /\ UNCHANGED <<backendVars, routes, last, answered, serving, probe>>

\* (mutation) the error of a data parameter on a GET handler leaves the request
\* and stops the application
BindOrCrash ==
    /\ request.pc = "routed"
    /\ LET h == routes[request.method]
       IN  IF h.data /\ ~HasBodySemantics(request.method)
           THEN /\ serving' = FALSE
                /\ request' = NoRequest
           ELSE /\ request' = [request EXCEPT !.pc = "resolving", !.pending = h.deps]
                /\ UNCHANGED serving
    /\ UNCHANGED <<backendVars, routes, last, answered, probe>>

\* the parameters of the handler are bound: a data parameter on a method
\* without body semantics is an error of this request, answered with status
\* 500; else the dependencies named by the parameters are to be resolved
Bind ==
    /\ request.pc = "routed"
    /\ LET h == routes[request.method]
       IN  IF h.data /\ ~HasBodySemantics(request.method)
           THEN request' = [request EXCEPT !.pc = "done",
                                            !.status = HTTP_500_INTERNAL_SERVER_ERROR]
           ELSE request' = [request EXCEPT !.pc = "resolving", !.pending = h.deps]
    /\ UNCHANGED <<backendVars, routes, last, answered, serving, probe>>

\* the request with dependency name resolved to a new object
Resolved(r, name) ==
    [r EXCEPT !.pc = "resolving", !.pending = @ \ {name}, !.cur = "",
              !.values[name] = r.made + 1, !.made = @ + 1]

\* (mutation) the handler parameters are resolved as they are read, and the
\* handler body starts with dependencies still pending
MayRunEarly(r) == r.pc = "resolving"

\* all parameters are resolved before the handler body runs
MayRun(r) == r.pc = "resolving" /\ r.pending = {}

\* the provider of a pending dependency is invoked, in no particular order: a
\* plain function returns its object at once, a coroutine suspends
InvokeProvider(name) ==
    /\ request.pc = "resolving"
    /\ name \in request.pending
    /\ LET r == [request EXCEPT !.calls[name] = @ + 1]
       IN  IF Providers[name].async
           THEN request' = [r EXCEPT !.pc = "awaiting", !.cur = name]
           ELSE request' = Resolved(r, name)
    /\ UNCHANGED <<backendVars, routes, last, answered, serving, probe>>

\* the awaited provider returns its object
ProviderDone ==
    /\ request.pc = "awaiting"
    /\ request' = Resolved(request, request.cur)
    /\ UNCHANGED <<backendVars, routes, last, answered, serving, probe>>

\* the assertions of the handler bodies of the tests: the dependencies are
\* objects and differ, the data is person_instance
HandlerAsserts(h, r) ==
    /\ \A d \in h.deps : r.values[d] # 0
    /\ \A d, e \in h.deps : d # e => r.values[d] # r.values[e]
    /\ h.data => FromJson(ToJson(person_instance, PersonFields)) = person_instance

\* the handler body runs: its result is serialized and answered with the default
\* status of the method; an exception of the body is answered with status 500
RunHandler ==
    /\ MayRun(request)
    /\ LET h == routes[request.method]
           ok == HandlerAsserts(h, request)
       IN  request' =
               [request EXCEPT
                   !.pc = "done", !.runs = @ + 1,
                   !.status = IF ok THEN DefaultStatus(request.method)
                              ELSE HTTP_500_INTERNAL_SERVER_ERROR,
                   !.json = IF ok /\ h.returns = "person"
                            THEN ToJson(person_instance, PersonFields) ELSE <<>>]
    /\ UNCHANGED <<backendVars, routes, last, answered, serving, probe>>

\* the response is sent
Respond ==
    /\ request.pc = "done"
    /\ last' = [status |-> request.status, json |-> request.json, request |-> request]
    /\ answered' = answered + 1
    /\ request' = NoRequest
    /\ UNCHANGED <<backendVars, routes, serving, probe>>

\* what the application does with a request
Serve ==
    \/ Bind
    \/ \E name \in DependencyNames : InvokeProvider(name)
    \/ ProviderDone
    \/ RunHandler
    \/ Respond

(***************************************************************************)
(* The typing utilities.                                                   *)
(***************************************************************************)
\* typing.get_origin: the class a generic annotation is made from, "" (None)
\* for an annotation that is not generic
get_origin(annotation) ==
    CASE annotation.args = <<>> -> ""
      [] annotation.alias /\ annotation.name = "List" -> "list"
      [] annotation.alias /\ annotation.name = "Tuple" -> "tuple"
      [] annotation.alias /\ annotation.name = "Deque" -> "deque"
      [] annotation.alias /\ annotation.name = "Dict" -> "dict"
      [] OTHER -> annotation.name

\* typing.get_args
get_args(annotation) == annotation.args

\* the classes of the generic iterable containers
IterableOrigins == {"list", "Sequence", "Iterable", "tuple", "deque"}

\* (mutation) the element type is not compared
annotation_is_iterable(annotation, type_value) ==
    get_origin(annotation) \in IterableOrigins

\* annotation_is_iterable_of_type(annotation, type_value)
annotation_is_iterable_of_type(annotation, type_value) ==
    LET origin == get_origin(annotation)
        args == get_args(annotation)
    IN  /\ origin \in IterableOrigins
        /\ IF origin = "tuple"
           THEN args = <<type_value, "...">>
           ELSE args = <<type_value>>

\* a caller passes an annotation and a type
CallIsIterableOfType(annotation, type_value) ==
    /\ probe.pc \in {"none", "returned"}
    /\ probe' = [pc |-> "called", annotation |-> annotation, type_value |-> type_value,
                 result |-> FALSE]
    /\ UNCHANGED <<backendVars, routes, request, last, answered, serving>>

\* the function returns
ReturnIsIterableOfType ==
    /\ probe.pc = "called"
    /\ probe' = [probe EXCEPT
                     !.pc = "returned",
                     !.result = annotation_is_iterable_of_type(probe.annotation,
                                                               probe.type_value)]
    /\ UNCHANGED <<backendVars, routes, request, last, answered, serving>>

(***************************************************************************)
(* Specifications.                                                         *)
(***************************************************************************)
\* a channel collection naming one channel
OneChannel == {<<c>> : c \in Channels}

Lifecycle(t) ==
    \/ BeginStartup(t)
    \/ StartupConnected(t)
    \/ StartupConnectFails(t)
    \/ BeginShutdown(t)
    \/ ShutdownClosed(t)

Publish(t) ==
    \/ \E data \in PublishPayloads, channels \in ChannelLists : BeginPublish(t, data, channels)
    \/ PublishConnected(t)
    \/ PublishConnectFails(t)
    \/ PublishExecuted(t)
    \/ PublishExecuteFails(t)
    \/ PublishClosed(t)

Subscribe(t) ==
    \/ \E channels \in ChannelLists : BeginSubscribe(t, channels)
    \/ SubscribeAdded(t)
    \/ SubscribeAddFails(t)

Unsubscribe(t) ==
    \/ \E channels \in ChannelLists, oneshot \in BOOLEAN :
           BeginUnsubscribe(t, channels, oneshot)
    \/ UnsubscribeRemoved(t)
    \/ UnsubscribeRemoveFails(t)

Notification == \E channel \in Channels, payload \in NotifyPayloads : Listener(channel, payload)

Stream(k) ==
    \/ StreamStart(k)
    \/ StreamWake(k)
    \/ StreamResume(k)

\* one caller starting and stopping the backend, subscribing and unsubscribing,
\* one call after the other; any driver call may fail
Next ==
    \E t \in SeqTasks : Lifecycle(t) \/ Subscribe(t) \/ Unsubscribe(t) \/ Return(t)

Spec == Init /\ [][Next]_vars

\* the event path: the caller subscribes and unsubscribes single channels, the
\* driver delivers notifications and one consumer reads the stream
NextStream ==
    \/ \E t \in SeqTasks :
           \/ BeginStartup(t)
           \/ StartupConnected(t)
           \/ BeginShutdown(t)
           \/ ShutdownClosed(t)
           \/ \E channels \in OneChannel : BeginSubscribe(t, channels)
           \/ SubscribeAdded(t)
           \/ \E channels \in OneChannel : BeginUnsubscribe(t, channels, FALSE)
           \/ UnsubscribeRemoved(t)
           \/ Return(t)
    \/ Notification
    \/ \E k \in SeqConsumers : Stream(k)

SpecStream == InitDsn /\ [][NextStream]_vars

\* the same with the event loop running a consumer that can run: a woken get
\* is resumed, and the consumer keeps asking for the next event
SpecStreamFair == SpecStream /\ \A k \in SeqConsumers : WF_vars(Stream(k))

\* several consumers iterating stream_events at the same time on a backend that
\* is started, subscribed, notified (of "é" on either channel) and stopped
NextMulti ==
    \/ \E t \in SeqTasks :
           \/ BeginStartup(t)
           \/ StartupConnected(t)
           \/ BeginShutdown(t)
           \/ ShutdownClosed(t)
           \/ \E channels \in OneChannel : BeginSubscribe(t, channels)
           \/ SubscribeAdded(t)
           \/ Return(t)
    \/ \E channel \in Channels : Listener(channel, [type |-> "str", text |-> <<233>>])
    \/ \E k \in Consumers : Stream(k)

SpecMulti == InitDsn /\ [][NextMulti]_vars

\* the backend from before its construction: the constructor is called with
\* any arguments, again after a failure, then the sequential caller goes on
NextCtor ==
    \/ \E dsn \in DsnValues, make_connection \in FactoryValues : Construct(dsn, make_connection)
    \/ Next

SpecCtor == InitCtor /\ [][NextCtor]_vars

\* one caller starting, stopping and starting the backend again, subscribing
\* and unsubscribing with lists of channels, one call after the other; no
\* driver call fails
NextRestart ==
    \E t \in SeqTasks :
        \/ BeginStartup(t)
        \/ StartupConnected(t)
        \/ BeginShutdown(t)
        \/ ShutdownClosed(t)
        \/ \E channels \in ChannelLists : BeginSubscribe(t, channels)
        \/ SubscribeAdded(t)
        \/ \E channels \in ChannelLists : BeginUnsubscribe(t, channels, FALSE)
        \/ UnsubscribeRemoved(t)
        \/ Return(t)

SpecRestart == InitDsn /\ [][NextRestart]_vars

\* callers of the typing utility
NextTyping ==
    \/ \E annotation \in Annotations, type_value \in ElementTypes :
           CallIsIterableOfType(annotation, type_value)
    \/ ReturnIsIterableOfType

SpecTyping == InitDsn /\ [][NextTyping]_vars

\* an application with some of the handlers of the tests, and a client
NextWeb ==
    \/ \E h \in Handlers : Register(h)
    \/ StartServing
    \/ \E method \in HttpMethods, body \in BOOLEAN : Dispatch(method, body)
    \/ Serve

SpecWeb == InitDsn /\ [][NextWeb]_vars

\* the same with the event loop running the application while a request is
\* being handled
SpecWebFair == SpecWeb /\ WF_vars(Serve)

\* one caller that also asks for the history of a channel, before, during and
\* after the runs of a backend that is subscribed and notified
NextHistory ==
    \/ \E t \in SeqTasks :
           \/ Lifecycle(t)
           \/ \E channels \in OneChannel : BeginSubscribe(t, channels)
           \/ SubscribeAdded(t)
           \/ \E channel \in Channels, limit \in HistoryLimits : GetHistory(t, channel, limit)
           \/ Return(t)
    \/ Notification

SpecHistory == Init /\ [][NextHistory]_vars

\* one caller that also publishes, on a backend that is started and stopped
\* and receives notifications
NextFrame ==
    \/ \E t \in SeqTasks :
        \/ Lifecycle(t)
        \/ \E channels \in OneChannel : BeginSubscribe(t, channels)
        \/ SubscribeAdded(t)
        \/ Publish(t)
        \/ Return(t)
    \/ Notification

SpecFrame == Init /\ [][NextFrame]_vars

\* several tasks publishing at the same time
NextPublish == \E t \in Tasks : Publish(t) \/ Return(t)

SpecPublish == InitDsn /\ [][NextPublish]_vars

\* a started backend, several tasks subscribing and unsubscribing at once;
\* no driver call fails
NextConc ==
    \E t \in Tasks :
        \/ BeginStartup(t)
        \/ StartupConnected(t)
        \/ \E channels \in ChannelLists : BeginSubscribe(t, channels)
        \/ SubscribeAdded(t)
        \/ \E channels \in ChannelLists : BeginUnsubscribe(t, channels, FALSE)
        \/ UnsubscribeRemoved(t)
        \/ Return(t)

SpecConc == InitDsn /\ [][NextConc]_vars


(***************************************************************************)
(* Properties of publish.                                                  *)
(***************************************************************************)
\* the notifies a publish call with record c is to issue: one per channel, in
\* the order given, each with the text of the payload
Notifies(c) == [k \in 1 .. Len(c.chans) |-> NotifyCall(c.chans[k], Utf8Decode(c.data).text)]

IsPrefix(s, r) == Len(s) <= Len(r) /\ s = SubSeq(r, 1, Len(s))

PublishCalls == {t \in Tasks : call[t].op = "publish"}

Ended(t) == call[t].pc = "returned"

\* C1: a publish of a valid UTF-8 payload to N channels issues, on a connection
\* of its own, the N notifies in order, each with the decoded payload (text that
\* encodes back to the payload); the connection is closed when publish ends,
\* after N successful notifies as well as after a notify that raised, which is
\* the last one issued and whose error publish raises
C1_PublishNotifiesAndCloses ==
    \A t \in PublishCalls :
        LET c == call[t] IN
        Utf8Decode(c.data).ok =>
            /\ IsPrefix(c.log, Notifies(c))
            /\ \A k \in 1 .. Len(c.log) : Utf8Encode(c.log[k].arg) = c.data
            /\ c.conn # 0 =>
                   /\ conns[c.conn].by = "publish"
                   /\ conns[c.conn].cmds = c.log
                   /\ c.pc \in {"await_execute", "await_close"} => conns[c.conn].open
            /\ Ended(t) /\ c.exc = "none" =>
                   /\ c.log = Notifies(c)
                   /\ c.conn # 0 /\ ~conns[c.conn].open
            /\ Ended(t) /\ c.exc = "ExecuteError" =>
                   /\ c.i >= 1 /\ Len(c.log) = c.i
                   /\ c.conn # 0 /\ ~conns[c.conn].open
            /\ Ended(t) => c.exc \in {"none", "ExecuteError", "ConnectError"}

\* a publish to two channels has ended with the error of its first notify,
\* on a running backend
C1_Witness ==
    \E t \in PublishCalls :
        /\ Ended(t) /\ call[t].exc = "ExecuteError"
        /\ call[t].i = 1 /\ call[t].chans = <<"b", "a">>
        /\ call[t].data = <<195, 169>>
        /\ ~conns[call[t].conn].open
        /\ phase = "running"

\* a publish of "€" has returned after notifying two channels
C1_WitnessReturned ==
    \E t \in PublishCalls :
        /\ Ended(t) /\ call[t].exc = "none"
        /\ call[t].log = <<NotifyCall("a", <<8364>>), NotifyCall("a", <<8364>>)>>

\* C6: a publish of a payload that is not valid UTF-8 ends at once with the
\* decoding error: it has issued no notify and has no connection, and the step
\* that runs it opens no connection and asks the driver for none
C6_InvalidPayloadAborts ==
    /\ [](\A t \in PublishCalls :
              ~Utf8Decode(call[t].data).ok =>
                  /\ Ended(t)
                  /\ call[t].exc = "UnicodeDecodeError"
                  /\ call[t].log = <<>>
                  /\ call[t].conn = 0)
    /\ [][\A t \in Tasks :
              call'[t].exc = "UnicodeDecodeError" /\ call[t].exc # "UnicodeDecodeError" =>
                  conns' = conns /\ nConnects' = nConnects]_vars

\* a publish of an overlong form to two channels has raised on a running backend
C6_Witness ==
    \E t \in PublishCalls :
        /\ call[t].data = <<192, 128>> /\ Len(call[t].chans) = 2
        /\ Ended(t) /\ call[t].exc = "UnicodeDecodeError"
        /\ phase = "running"

\* C9: publish calls running at the same time have connections of their own:
\* no connection is shared, a connection has executed the notifies of its call
\* and no other, a call that has returned has issued its notifies, and with no
\* call running no connection a publish opened is open
C9_ConcurrentPublish ==
    /\ \A t, u \in PublishCalls :
           t # u /\ call[t].conn # 0 => call[t].conn # call[u].conn
    /\ \A t \in PublishCalls :
           /\ IsPrefix(call[t].log, Notifies(call[t]))
           /\ call[t].conn # 0 => conns[call[t].conn].cmds = call[t].log
           /\ Ended(t) /\ call[t].exc = "none" => call[t].log = Notifies(call[t])
    /\ (\A t \in Tasks : call[t].pc \in {"idle", "returned"}) =>
           \A id \in 1 .. Len(conns) : conns[id].by = "publish" => ~conns[id].open

\* two publish calls that overlapped have both returned, each after notifying
\* two channels with its own payload
C9_Witness ==
    /\ raced
    /\ \E t, u \in PublishCalls :
           /\ t # u
           /\ Ended(t) /\ call[t].exc = "none" /\ Len(call[t].log) = 2
           /\ Ended(u) /\ call[u].exc = "none" /\ Len(call[u].log) = 2
           /\ call[t].data # call[u].data


\* the listener connection as the backend holds it
ListenerRecord == IF listener_conn = 0 THEN <<>> ELSE <<conns[listener_conn]>>

\* C8: publish works on a connection it has opened itself, never on the
\* listener connection: the listener connection has executed no command and is
\* open for as long as the backend runs, and no step of a publish call changes
\* the subscribed set, the listener connection or its registrations, or the queue
C8_PublishFrame ==
    /\ [](/\ \A t \in PublishCalls :
                 call[t].conn # 0 =>
                     /\ call[t].conn # listener_conn
                     /\ conns[call[t].conn].by = "publish"
          /\ listener_conn # 0 => conns[listener_conn].cmds = <<>>
          /\ phase = "running" => conns[listener_conn].open)
    /\ [][(\E t \in Tasks : call'[t] # call[t] /\ "publish" \in {call[t].op, call'[t].op}) =>
              /\ subscribed_channels' = subscribed_channels
              /\ listener_conn' = listener_conn
              /\ ListenerRecord' = ListenerRecord
              /\ has_queue' = has_queue
              /\ queue' = queue
              /\ unfinished' = unfinished]_vars

\* a publish has notified two channels and closed its connection while the
\* backend runs with a subscription and an event in its queue
C8_Witness ==
    \E t \in PublishCalls :
        /\ Ended(t) /\ call[t].exc = "none" /\ Len(call[t].log) = 2
        /\ phase = "running"
        /\ subscribed_channels # {}
        /\ queue # <<>>


(***************************************************************************)
(* Properties of subscribe, unsubscribe and the lifecycle.                 *)
(***************************************************************************)
SubscribeCalls == {t \in Tasks : call[t].op = "subscribe"}

UnsubscribeCalls == {t \in Tasks : call[t].op = "unsubscribe"}

\* C2: in a sequential run a subscribe call issues add_listener only for
\* requested channels that were not subscribed when it started, and for each at
\* most once however often the call names it; a call all of whose channels were
\* subscribed issues nothing and leaves the set as it was; so no channel has
\* the callback registered twice between two unsubscribes of it
C2_SubscribeIdempotent ==
    /\ \A t \in SubscribeCalls :
           LET c == call[t] IN
           /\ \A k \in 1 .. Len(c.log) :
                  /\ c.log[k].f = "add_listener"
                  /\ c.log[k].ch \in Range(c.chans) \ c.sub0
           /\ \A j, k \in 1 .. Len(c.log) : j # k => c.log[j].ch # c.log[k].ch
           /\ c.sub0 \subseteq subscribed_channels
           /\ Range(c.chans) \subseteq c.sub0 =>
                  Ended(t) /\ c.exc = "none" /\ c.log = <<>> /\ subscribed_channels = c.sub0
    /\ listener_conn # 0 =>
           \A ch \in Channels : conns[listener_conn].adds[ch] <= 1

\* a subscribe naming twice a channel that was subscribed has returned, with
\* the callback registered once for it
C2_Witness ==
    \E t \in SubscribeCalls :
        /\ Ended(t)
        /\ call[t].chans = <<"a", "a">>
        /\ call[t].sub0 = {"a"}
        /\ conns[listener_conn].adds["a"] = 1

\* the remove_listener calls an unsubscribe with record c is to issue
Removes(c) == [k \in 1 .. Len(c.chans) |-> DriverCall("remove_listener", c.chans[k], <<>>)]

\* C3: an unsubscribe calls remove_listener once for every requested channel,
\* subscribed or not, and when it has returned the subscribed set is the one it
\* found less the requested channels
C3_UnsubscribeRemoves ==
    \A t \in UnsubscribeCalls :
        LET c == call[t] IN
        /\ IsPrefix(c.log, Removes(c))
        /\ Ended(t) /\ c.exc = "none" =>
               /\ c.log = Removes(c)
               /\ subscribed_channels = c.sub0 \ Range(c.chans)

\* the same of an unsubscribe that is given a collection it can iterate twice
UnsubscribeOfListRemoves ==
    \A t \in UnsubscribeCalls :
        LET c == call[t] IN
        /\ IsPrefix(c.log, Removes(c))
        /\ Ended(t) /\ c.exc = "none" =>
               /\ c.log = Removes(c)
               /\ ~c.oneshot => subscribed_channels = c.sub0 \ Range(c.chans)

\* the connections on_startup has opened and nothing has closed
ListenerConns == {id \in 1 .. Len(conns) : conns[id].by = "on_startup" /\ conns[id].open}

\* C7: with on_startup and on_shutdown called in turn, on_startup allocates an
\* empty queue and opens one connection through what the constructor was
\* given; while the backend runs that connection is the one open listener
\* connection and the backend holds it; when on_shutdown has returned the
\* connection is closed and the queue attribute is gone; outside a run no
\* listener connection is open
C7_Lifecycle ==
    /\ [](/\ phase = "running" =>
                 /\ ListenerConns = {listener_conn}
                 /\ conns[listener_conn].via = ConnectVia(ctor)
                 /\ has_queue
          /\ phase # "running" => ListenerConns = {}
          /\ \A t \in Tasks :
                 call[t].op = "on_shutdown" /\ Ended(t) =>
                     /\ ~has_queue
                     /\ listener_conn = call[t].conn
                     /\ ~conns[listener_conn].open)
    /\ [][\A t \in Tasks :
              /\ call[t].op # "on_startup" /\ call'[t].op = "on_startup" =>
                     /\ has_queue' /\ queue' = <<>> /\ unfinished' = 0
                     /\ epoch' = epoch + 1
                     /\ conns' = conns
              /\ call[t].op = "on_startup" /\ ~Ended(t) /\ Ended(t)' /\ call'[t].exc = "none" =>
                     /\ conns' = Append(conns, NewConn("on_startup"))
                     /\ listener_conn' = Len(conns')
                     /\ phase' = "running"
                     /\ UNCHANGED <<has_queue, queue, epoch>>]_vars

\* the backend has been started a second time, through the factory, and its
\* queue holds an event; the connection of the first run is closed
C7_Witness ==
    /\ phase = "running"
    /\ listener_conn = 2
    /\ ~conns[1].open
    /\ conns[2].via = "make_connection"
    /\ epoch = 2
    /\ queue # <<>>


(***************************************************************************)
(* Properties of the event path.                                           *)
(***************************************************************************)
\* consumer k reads, through a generator started on it, the queue object the
\* backend holds
OnQueue(k) ==
    /\ cons[k].pc \in {"waiting", "yielded"}
    /\ has_queue
    /\ cons[k].born = epoch

\* C4: the generator of a single consumer on a running backend has yielded the
\* events in the order the callback enqueued them, each once, and what it has
\* not yielded is still queued; it does not end while the backend holds the
\* queue it started on; and with the consumer running every event enqueued is
\* yielded in the end, unless the backend is shut down first
C4_StreamFifo ==
    /\ [](\A k \in SeqConsumers :
              OnQueue(k) =>
                  /\ nDeq = cons[k].base + Len(got[k])
                  /\ nDeq <= Len(enq)
                  /\ \A j \in 1 .. Len(got[k]) :
                         /\ got[k][j].idx = cons[k].base + j
                         /\ got[k][j].ev = enq[cons[k].base + j]
                  /\ queue = SubSeq(enq, nDeq + 1, Len(enq)))
    /\ [][\A k \in SeqConsumers :
              OnQueue(k) /\ cons'[k].pc = "idle" => ~has_queue' \/ epoch' # epoch]_vars
    /\ \A k \in SeqConsumers : \A n \in 1 .. MaxEvents :
           (OnQueue(k) /\ Len(enq) >= n) ~> (nDeq >= n \/ ~OnQueue(k))

\* the consumer has been yielded two different events, the second of which was
\* enqueued while the first was still in the queue
C4_Witness ==
    /\ OnQueue(1)
    /\ cons[1].pc = "yielded"
    /\ cons[1].base = 0
    /\ Len(got[1]) = 2
    /\ got[1][1].ev # got[1][2].ev
    /\ enq = <<got[1][1].ev, got[1][2].ev>>

\* C5: a call of the listener callback with a payload that is no str raises
\* and leaves the queue as it was; a call with a str appends one event, the
\* channel with bytes that decode to the payload, at the tail of the queue,
\* whatever the queue holds already; no call fails for any other reason
C5_ListenerEnqueues ==
    /\ [](cb \in {"none", "ok", "RuntimeError"})
    /\ [][\A channel \in Channels, payload \in NotifyPayloads :
              Listener(channel, payload) =>
                  IF payload.type # "str"
                  THEN /\ cb' = "RuntimeError"
                       /\ UNCHANGED <<has_queue, queue, unfinished>>
                  ELSE /\ cb' = "ok"
                       /\ Len(queue') = Len(queue) + 1
                       /\ SubSeq(queue', 1, Len(queue)) = queue
                       /\ queue'[Len(queue')][1] = channel
                       /\ Utf8Decode(queue'[Len(queue')][2]) =
                              [ok |-> TRUE, text |-> payload.text]
                       /\ has_queue' = has_queue]_vars

\* the callback has appended "é" on channel b to a queue that held an event
C5_Witness ==
    /\ cb = "ok"
    /\ Len(queue) = 2
    /\ queue[2] = <<"b", <<195, 169>> >>


(***************************************************************************)
(* Concurrent subscribe and unsubscribe.                                   *)
(***************************************************************************)
\* the subscribed set is not the set of channels with the callback registered
Disagree == subscribed_channels # conns[listener_conn].listeners

\* add_listener has completed twice for a channel with no remove_listener between
AddedTwice == \E ch \in Channels : conns[listener_conn].adds[ch] >= 2

\* no call is running
Quiet == \A t \in Tasks : call[t].pc \in {"idle", "returned"}

\* C10: subscribe and unsubscribe calls of two tasks that interleave at
\* add_listener and remove_listener can return leaving the subscribed set
\* different from the registrations, or a channel registered twice (the witness
\* is such a state); it takes an interleaving: with no call running, neither
\* is the case unless some call started while another was running
C10_RacesBreakAgreement ==
    phase = "running" /\ Quiet /\ (Disagree \/ AddedTwice) => raced

\* a subscribe and an unsubscribe that overlapped have both returned and the
\* subscribed set is not the set of registered channels
C10_Witness ==
    /\ phase = "running"
    /\ \A t \in Tasks : Ended(t) /\ call[t].exc = "none"
    /\ \E t, u \in Tasks : call[t].op = "subscribe" /\ call[u].op = "unsubscribe"
    /\ \E t, u \in Tasks :
           t # u /\ Range(call[t].chans) \cap Range(call[u].chans) # {}
    /\ Disagree

\* two subscribes that overlapped have both returned with one channel's
\* registration requested by each
C10_WitnessTwice ==
    /\ phase = "running"
    /\ \A t \in Tasks : Ended(t) /\ call[t].op = "subscribe"
    /\ AddedTwice


(***************************************************************************)
(* Several consumers of one backend.                                       *)
(***************************************************************************)
\* the events consumer k has been yielded, by their place in the order in
\* which they left the queue
Received(k) == {got[k][j].idx : j \in 1 .. Len(got[k])}

\* C11: with several consumers iterating stream_events on one backend, every
\* event that leaves the queue is yielded to exactly one of them: the step that
\* takes it hands the oldest event to one consumer and to no other, and a
\* consumer is yielded an event only by taking it out of the queue; so no two
\* consumers hold the same event, no consumer holds one twice, and each event
\* held is the one the callback enqueued at that place
C11_DisjointDelivery ==
    /\ [](/\ \A j, k \in Consumers : j # k => Received(j) \cap Received(k) = {}
          /\ \A k \in Consumers :
                 /\ Cardinality(Received(k)) = Len(got[k])
                 /\ Received(k) \subseteq 1 .. nDeq
                 /\ \A j \in 1 .. Len(got[k]) :
                        /\ got[k][j].idx <= Len(enq)
                        /\ got[k][j].ev = enq[got[k][j].idx]
          /\ nDeq + Len(queue) = Len(enq))
    /\ [][/\ nDeq' = nDeq + 1 =>
                 /\ queue' = Tail(queue)
                 /\ \E k \in Consumers :
                        /\ got'[k] = Append(got[k], [idx |-> nDeq', ev |-> Head(queue)])
                        /\ \A j \in Consumers \ {k} : got'[j] = got[j]
          /\ \A k \in Consumers :
                 Len(got'[k]) > Len(got[k]) => nDeq' = nDeq + 1]_vars

\* two consumers iterate at once and each has been yielded one of the two
\* events enqueued
C11_Witness ==
    /\ phase = "running"
    /\ Len(enq) = 2 /\ nDeq = 2
    /\ \A k \in {1, 2} : cons[k].pc = "yielded" /\ Len(got[k]) = 1
    /\ got[1][1].idx = 2 /\ got[2][1].idx = 1


(***************************************************************************)
(* Properties of get_history.                                              *)
(***************************************************************************)
HistoryCalls == {t \in Tasks : call[t].op = "get_history"}

\* C12: get_history fails for every channel and every limit, no limit
\* included, before startup, while the backend runs and after shutdown: a
\* call of it has ended with NotImplementedError and never with a result, and
\* the step that runs it changes neither the subscribed set, the queue nor any
\* connection
C12_GetHistoryFails ==
    /\ [](\A t \in HistoryCalls : Ended(t) /\ call[t].exc = "NotImplementedError")
    /\ [][\A t \in Tasks :
              call'[t].op = "get_history" /\ call[t].op # "get_history" =>
                  /\ subscribed_channels' = subscribed_channels
                  /\ has_queue' = has_queue /\ queue' = queue /\ unfinished' = unfinished
                  /\ conns' = conns /\ listener_conn' = listener_conn
                  /\ nConnects' = nConnects
                  /\ phase' = phase]_vars

\* get_history with a limit has failed on a running backend that is subscribed
\* and has an event in its queue
C12_Witness ==
    \E t \in HistoryCalls :
        /\ call[t].limit = [given |-> TRUE, n |-> 1] /\ call[t].cur = "b"
        /\ call[t].exc = "NotImplementedError"
        /\ phase = "running" /\ subscribed_channels # {} /\ queue # <<>>

\* get_history without a limit has failed on a backend that was never started
C12_WitnessNew ==
    \E t \in HistoryCalls :
        call[t].limit = NoLimit /\ call[t].exc = "NotImplementedError" /\ phase = "new"

\* get_history has failed on a backend that has been shut down
C12_WitnessStopped ==
    \E t \in HistoryCalls :
        call[t].exc = "NotImplementedError" /\ phase = "stopped" /\ ~has_queue


(***************************************************************************)
(* Properties of the constructor.                                          *)
(***************************************************************************)
\* C13: a construction with neither a connection string nor a connection
\* factory (None, or the empty string that the constructor takes for none)
\* raises ImproperlyConfiguredException and leaves no instance; a construction
\* that supplies one of the two succeeds (with both, too), asks the driver for
\* no connection and starts with the empty subscribed set
C13_Constructor ==
    /\ [](/\ phase = "none" =>
                 /\ subscribed_channels = NoAttribute
                 /\ conns = <<>> /\ nConnects = 0 /\ ~has_queue
          /\ ctor.exc # "none" =>
                 /\ ctor.exc = "ImproperlyConfiguredException"
                 /\ phase = "none"
          /\ phase = "new" /\ (\A t \in Tasks : Idle(t)) /\ epoch = 0 =>
                 subscribed_channels = {} /\ conns = <<>>)
    /\ [][ctor' # ctor =>
              IF ~(Truthy(ctor'.dsn) \/ Truthy(ctor'.make_connection))
              THEN /\ ctor'.exc = "ImproperlyConfiguredException"
                   /\ phase' = "none"
                   /\ subscribed_channels' = NoAttribute
                   /\ conns' = conns /\ nConnects' = nConnects
              ELSE /\ ctor'.exc = "none"
                   /\ phase' = "new"
                   /\ subscribed_channels' = {}
                   /\ conns' = <<>> /\ nConnects' = 0 /\ listener_conn' = 0
                   /\ ~has_queue']_vars

\* the backend has just been constructed from a factory alone: its subscribed
\* set is empty and the driver was asked for no connection
C13_Witness ==
    /\ ctor = CtorCall(None, [given |-> TRUE, value |-> "factory"])
    /\ phase = "new"
    /\ subscribed_channels = {}
    /\ conns = <<>> /\ nConnects = 0

\* a backend constructed from a connection string alone is started through it
C13_WitnessDsn ==
    /\ ctor = CtorCall([given |-> TRUE, value |-> "postgresql://db"], None)
    /\ phase = "running"
    /\ conns[listener_conn].via = "dsn"

\* a construction with the empty string and no factory has failed
C13_WitnessFailed ==
    /\ ctor.dsn = [given |-> TRUE, value |-> ""]
    /\ ctor.exc = "ImproperlyConfiguredException"
    /\ phase = "none"

\* a construction without arguments has failed
C13_WitnessNeither ==
    /\ ctor = [NoCtor EXCEPT !.exc = "ImproperlyConfiguredException"]
    /\ phase = "none"


(***************************************************************************)
(* C14.  Default status and body of a handler returning a record.          *)
(***************************************************************************)
\* the last response answers a request to a handler that returns the fixed
\* record and declares no parameters
AnsweredPlain(method) ==
    /\ last.status # 0
    /\ last.request.method = method
    /\ routes[method] = PlainHandler(method)

\* C14: for each of GET, POST, PUT, PATCH, DELETE, the response to a request to
\* a handler of that method that returns the fixed record has the default
\* status of the method (200, 201, 200, 200, 204), which is what the test
\* expects, and a body that parses to the field mapping of the record; and
\* the response being prepared for such a request is never another one.
C14_DefaultStatusAndBody ==
    /\ \A method \in HttpMethods :
           AnsweredPlain(method) =>
               /\ last.status = (CASE method = "GET" -> 200
                                   [] method = "POST" -> 201
                                   [] method = "PUT" -> 200
                                   [] method = "PATCH" -> 200
                                   [] method = "DELETE" -> 204)
               /\ last.status = expected_status_code[method]
               /\ FromJson(last.json) = person_instance
               /\ last.request.runs = 1
    /\ request.pc = "done" /\ routes[request.method] = PlainHandler(request.method) =>
           /\ request.status = expected_status_code[request.method]
           /\ FromJson(request.json) = person_instance

\* a DELETE to a handler returning the record was answered 204 with the record
C14_Witness ==
    /\ AnsweredPlain("DELETE")
    /\ last.status = 204
    /\ FromJson(last.json) = [id |-> 120, first_name |-> "Ann", last_name |-> "Lee"]
    /\ last.json[1].digits = <<1, 2, 0>>

\* a POST was answered 201 after another request had been answered
C14_WitnessPost ==
    /\ AnsweredPlain("POST")
    /\ last.status = 201
    /\ answered = 2

(***************************************************************************)
(* C15.  A data parameter on a GET handler.                                *)
(***************************************************************************)
\* the request in flight goes to a GET handler declaring a data parameter
ToDataGet(r) == r.method = "GET" /\ routes["GET"] = DataHandler("GET")

\* C15: a GET handler with a data parameter is accepted whenever a handler may
\* be registered; every request dispatched to it, with or without a body, is
\* answered with status 500 and its handler body does not run; the application
\* keeps serving, a further request can be dispatched to every registered
\* handler after the 500, and every dispatched request is answered.
C15_DataOnGetIs500 ==
    /\ [](/\ ( /\ ~serving /\ answered = 0
                /\ routes["GET"] = NoHandler
                /\ Cardinality(Registered) < MaxHandlers )
              => ENABLED Register(DataHandler("GET"))
          /\ last.status # 0 /\ ToDataGet(last.request) =>
                 /\ last.status = 500
                 /\ last.request.runs = 0
          /\ ( /\ last.status = 500 /\ ToDataGet(last.request)
               /\ request.pc = "none" /\ answered < MaxRequests )
              => /\ serving
                 /\ \A method \in Registered :
                        \E body \in BOOLEAN : ENABLED Dispatch(method, body)
                 /\ \A body \in BOOLEAN : ENABLED Dispatch("GET", body))
    /\ [][/\ serving => serving'
          /\ ToDataGet(request) /\ request.pc # "none" =>
                 \/ request'.pc \in {"routed", "done"} /\ answered' = answered
                 \/ /\ request'.pc = "none"
                    /\ answered' = answered + 1
                    /\ last'.status = 500
                    /\ last'.request.body = request.body]_vars
    /\ [](request.pc # "none" => <>(request.pc = "none" /\ last.status # 0))

\* a GET with a body was answered 500 by the data handler, and a POST to another
\* handler of the same application is now being answered 201
C15_Witness ==
    /\ serving
    /\ answered = 1
    /\ last.status = 500
    /\ ToDataGet(last.request)
    /\ last.request.body
    /\ request.method = "POST"
    /\ request.pc = "done"
    /\ request.status = 201

\* two requests without a body to the GET data handler were both answered 500
C15_WitnessAgain ==
    /\ answered = 2
    /\ last.status = 500
    /\ ToDataGet(last.request)
    /\ ~last.request.body

(***************************************************************************)
(* C16.  Dependencies are resolved once per request, before the handler.   *)
(***************************************************************************)
\* r is a request to a handler whose parameters name both dependencies
ToInjected(r) == r.method # "" /\ routes[r.method] = InjectedHandler(r.method)

\* every provider of r was invoked once and has returned its own object
AllResolved(r) ==
    /\ r.pending = {}
    /\ r.cur = ""
    /\ \A d \in DependencyNames : r.calls[d] = 1 /\ r.values[d] # 0
    /\ \A d, e \in DependencyNames : d # e => r.values[d] # r.values[e]

\* C16: in a request to a handler that names the two dependencies, no provider
\* is invoked twice, a provider was invoked exactly when its dependency is
\* resolved or being awaited, resolved values of different names differ, the handler
\* body runs at most once and only after every provider (the suspending one
\* too) has completed, and the response of the request is sent after exactly
\* one run with the default status of the method.
C16_DependenciesOncePerRequest ==
    /\ [](/\ ToInjected(request) /\ request.pc \in {"resolving", "awaiting", "done"} =>
                 /\ \A d \in DependencyNames :
                        /\ request.calls[d] <= 1
                        /\ request.calls[d] = 1 <=>
                               d \notin request.pending \/ d = request.cur
                        /\ request.values[d] # 0 <=> d \notin request.pending
                 /\ \A d, e \in DependencyNames :
                        d # e /\ request.values[d] # 0 => request.values[d] # request.values[e]
                 /\ request.pc = "awaiting" <=> request.cur # ""
                 /\ request.runs <= 1
                 /\ request.runs = 1 <=> request.pc = "done"
                 /\ request.pc = "done" =>
                        /\ AllResolved(request)
                        /\ request.status = expected_status_code[request.method]
          /\ last.status # 0 /\ ToInjected(last.request) =>
                 /\ AllResolved(last.request)
                 /\ last.request.runs = 1
                 /\ last.status = expected_status_code[last.request.method])
    /\ [][ToInjected(request) /\ request'.runs = request.runs + 1 =>
              /\ AllResolved(request)
              /\ request'.values = request.values
              /\ request'.calls = request.calls]_vars

\* a DELETE whose coroutine provider was invoked first and suspended while the
\* plain one had not run yet was answered 204 after one run of the handler
C16_Witness ==
    /\ ToInjected(last.request)
    /\ last.request.method = "DELETE"
    /\ last.status = 204
    /\ last.request.runs = 1
    /\ last.request.calls = [first |-> 1, second |-> 1]
    /\ last.request.values = [first |-> 2, second |-> 1]

\* the handler is waiting for the suspended provider, the other one pending
C16_WitnessSuspended ==
    /\ ToInjected(request)
    /\ request.pc = "awaiting"
    /\ request.cur = "second"
    /\ request.pending = {"first", "second"}
    /\ request.runs = 0

(***************************************************************************)
(* C17.  annotation_is_iterable_of_type.                                   *)
(***************************************************************************)
\* the names the generic iterable containers are written with, as aliases of
\* the typing module and as builtin generics
ContainerNames == {"List", "Sequence", "Iterable", "Deque", "list", "deque"}

TupleNames == {"Tuple", "tuple"}

\* C17: a returned call annotation_is_iterable_of_type(annotation, T) is true
\* exactly when the annotation is a list, sequence, iterable or deque of T or
\* a tuple of T with an ellipsis, written either way; in particular it is false
\* for these shapes with another element type and for int, str and bool, and
\* it agrees with every row of the test when T is DataclassPerson.
C17_IterableOfType ==
    probe.pc = "returned" =>
        LET a == probe.annotation
            T == probe.type_value
        IN  /\ probe.result <=>
                   \/ a.name \in ContainerNames /\ a.args = <<T>>
                   \/ a.name \in TupleNames /\ a.args = <<T, "...">>
            /\ ( /\ a.name \in ContainerNames \cup TupleNames
                 /\ a.args # <<>> /\ a.args[1] # T ) => ~probe.result
            /\ a \in {Plain(t) : t \in ScalarTypes} => ~probe.result
            /\ T = "DataclassPerson" =>
                   \A row \in test_annotation_rows :
                       row.annotation = a => probe.result = row.expected

\* the call with tuple[DataclassPerson, ...], a row of the test, returned true
C17_Witness ==
    /\ probe.pc = "returned"
    /\ probe.annotation = Annotation("tuple", FALSE, <<"DataclassPerson", "...">>)
    /\ probe.type_value = "DataclassPerson"
    /\ [annotation |-> probe.annotation, expected |-> TRUE] \in test_annotation_rows
    /\ probe.result

\* the call with Deque[DataclassPet] and DataclassPerson returned false
C17_WitnessOther ==
    /\ probe.pc = "returned"
    /\ probe.annotation = Annotation("Deque", TRUE, <<"DataclassPet">>)
    /\ probe.type_value = "DataclassPerson"
    /\ ~probe.result

\* the call with bool returned false
C17_WitnessScalar ==
    /\ probe.pc = "returned"
    /\ probe.annotation = Plain("bool")
    /\ ~probe.result

(***************************************************************************)
(* C18.  The subscribed set and the listener registrations.                *)
(***************************************************************************)
\* no call is in progress
NoCallInProgress == \A t \in Tasks : call[t].pc \in {"idle", "returned"}

\* the channels the callback is registered for on the current listener connection
RegisteredChannels == conns[listener_conn].listeners

\* C18: in a sequential run of on_startup, subscribe, unsubscribe and
\* on_shutdown calls in which no driver call fails, whenever the backend is
\* running and no call is in progress, the subscribed set is the set of
\* channels the callback is registered for on the current listener connection.
C18_SetAgreesWithListeners ==
    phase = "running" /\ NoCallInProgress => subscribed_channels = RegisteredChannels

\* the same until the first on_shutdown: the set agrees with the registrations
\* on the first listener connection
AgreesInFirstRun ==
    phase = "running" /\ NoCallInProgress /\ nConnects = 1 =>
        subscribed_channels = RegisteredChannels

\* the backend was started again after a subscription: the set still names the
\* channel, the new listener connection has no callback registered
C18_Stale ==
    /\ phase = "running"
    /\ NoCallInProgress
    /\ nConnects = 2
    /\ subscribed_channels = {"a"}
    /\ RegisteredChannels = {}

\* and a subscribe to that channel has returned without registering it
C18_StaleAfterSubscribe ==
    /\ C18_Stale
    /\ \E t \in SubscribeCalls :
           /\ Ended(t)
           /\ call[t].chans = <<"a">>
           /\ call[t].log = <<>>

(***************************************************************************)
(* C19.  Events of a channel after its unsubscribe.                        *)
(***************************************************************************)
\* notifications of channel c were received in this run of the backend, and an
\* unsubscribe of c has returned since with no subscribe of c after it: the
\* backend is running, c is neither in the set nor registered, and no
\* subscribe or unsubscribe naming c is in progress
Unsubscribed(c) ==
    /\ phase = "running"
    /\ \E j \in 1 .. Len(enq) : enq[j][1] = c
    /\ c \notin subscribed_channels
    /\ c \notin RegisteredChannels
    /\ \A t \in Tasks : call[t].pc \in {"idle", "returned"} \/ c \notin Range(call[t].chans)

\* consumer k is yielded an event of channel c in this step
Yields(k, c) ==
    /\ Len(got'[k]) = Len(got[k]) + 1
    /\ got'[k][Len(got'[k])].ev[1] = c

\* C19: once unsubscribe(c) has returned on a running backend and until c is
\* subscribed again, stream_events yields no event of channel c, the events
\* of c that were in the queue when it was unsubscribed included.
C19_NoEventAfterUnsubscribe ==
    [][\A c \in Channels, k \in Consumers : Unsubscribed(c) => ~Yields(k, c)]_vars

\* what does hold: no notification of an unsubscribed channel joins the queue
NoEnqueueAfterUnsubscribe ==
    [][\A c \in Channels :
           Unsubscribed(c) /\ Len(enq') > Len(enq) => enq'[Len(enq')][1] # c]_vars

\* an event of an unsubscribed channel waits in the queue of the running backend
C19_QueuedWhenUnsubscribed ==
    /\ Unsubscribed("a")
    /\ queue # <<>>
    /\ Head(queue)[1] = "a"
    /\ cons[1].pc = "idle"

(***************************************************************************)
(* C20.  A driver call fails partway through subscribe or unsubscribe.     *)
(***************************************************************************)
\* the call of task t has raised the error of a driver call
Failed(t) == Ended(t) /\ call[t].exc # "none"

\* the channels whose add_listener had returned before the failing one
AddedBefore(c) == {c.log[k].ch : k \in 1 .. Len(c.log) - 1}

\* the channels whose remove_listener had returned before the failing one
RemovedBefore(c) == {c.chans[k] : k \in 1 .. c.i - 1}

\* C20: when a subscribe or an unsubscribe has raised the error of a driver
\* call, every channel whose callback was registered before the failure is in
\* the subscribed set, and every channel whose callback was removed before the
\* failure is no longer in it.
C20_FailureKeepsAgreement ==
    \A t \in Tasks :
        Failed(t) =>
            /\ call[t].op = "subscribe" => AddedBefore(call[t]) \subseteq subscribed_channels
            /\ call[t].op = "unsubscribe" => RemovedBefore(call[t]) \cap subscribed_channels = {}

\* the half that holds: a failed subscribe leaves what it had registered in the
\* set and registered, and the channel of the failing call out of both unless
\* it was there before
FailedSubscribeAgrees ==
    \A t \in Tasks :
        Failed(t) /\ call[t].op = "subscribe" =>
            /\ call[t].exc = "ListenError"
            /\ AddedBefore(call[t]) \subseteq subscribed_channels
            /\ AddedBefore(call[t]) \subseteq conns[call[t].conn].listeners
            /\ subscribed_channels = call[t].sub0 \cup AddedBefore(call[t])

\* a subscribe to two channels failed at the second: the first is in the set
C20_SubscribeFailedPartway ==
    \E t \in Tasks :
        /\ Failed(t)
        /\ call[t].op = "subscribe"
        /\ call[t].sub0 = {}
        /\ AddedBefore(call[t]) = {"a"}
        /\ subscribed_channels = {"a"}

\* an unsubscribe of a list of two subscribed channels failed at the second, on
\* the first listener connection: the callback of the first channel is removed
\* and the channel is still in the set
C20_RemovedButSubscribed ==
    \E t \in Tasks :
        /\ Failed(t)
        /\ call[t].op = "unsubscribe"
        /\ ~call[t].oneshot
        /\ call[t].chans = <<"a", "b">>
        /\ call[t].i = 2
        /\ nConnects = 1
        /\ "a" \in subscribed_channels
        /\ "a" \notin conns[listener_conn].listeners

====
